---- MODULE Spec2Model ----
(***************************************************************************)
(* Predicto Ads Dashboard (src/app.py): one Streamlit script pass as a     *)
(* state machine.  A pass reads the two sheets, normalises the ROAS table, *)
(* builds the single-date or range view, merges the Manual Control table,  *)
(* filters and sorts, walks the rows (change detection, pending batch,     *)
(* row-level Apply) and finally runs "Apply All Changes".                  *)
(*                                                                         *)
(* Text is a sequence of one-character strings, so that str.strip,         *)
(* str.upper, str.replace and the string comparison of dates are computed. *)
(* Money is an integer number of cents, budgets are integer thousandths of *)
(* a currency unit, baseline ratios are integer ten-thousandths; binary    *)
(* floating point is read as exact decimal arithmetic.                     *)
(***************************************************************************)
EXTENDS Integers, Sequences, FiniteSets, TLC

VARIABLES
    roas_sheet,       \* worksheet "ROAS" as stored (rows of cells)
    man_sheet,        \* worksheet "Manual Control" as stored
    roas_df,          \* read_ws("ROAS"), later normalised
    man_df,           \* read_ws("Manual Control")
    pc,               \* position of the script pass
    view_mode,        \* "Single day" | "Date range" | "" before the choice
    sel_start,        \* selected date (single) or range start, a day number
    sel_end,          \* range end, a day number
    df,               \* the view
    status_filter,    \* "All" | "ACTIVE only" | "PAUSED only"
    clicked,          \* the button whose press this pass has seen
    idx,              \* row loop / batch loop position
    widgets,          \* per rendered row: what the operator proposed
    seen_widget_ids,  \* uniq_key's set
    batched_changes,  \* pending mutation requests
    api_calls,        \* AdSet(..).api_update calls made in this pass
    messages,         \* st.warning / st.success / st.error shown in this pass
    successes,
    failures

vars == <<roas_sheet, man_sheet, roas_df, man_df, pc, view_mode, sel_start,
          sel_end, df, status_filter, clicked, idx, widgets,
          seen_widget_ids, batched_changes, api_calls, messages, successes,
          failures>>

sheets == <<roas_sheet, man_sheet>>
selection == <<view_mode, sel_start, sel_end>>
filters == <<status_filter>>
loop == <<clicked, idx, widgets, seen_widget_ids, batched_changes>>
counters == <<successes, failures>>

----------------------------------------------------------------------------
(* Text *)

\* pandas' missing value in an object column (NaN / None)
NaN == <<"NaN">>

\* str(x) of a cell: a missing value prints as "nan"
Str(x) == IF x = NaN THEN <<"n", "a", "n">> ELSE x

RECURSIVE LStrip(_)
LStrip(s) == IF s # <<>> /\ Head(s) = " " THEN LStrip(Tail(s)) ELSE s

RECURSIVE RStrip(_)
RStrip(s) ==
    IF s # <<>> /\ s[Len(s)] = " " THEN RStrip(SubSeq(s, 1, Len(s) - 1)) ELSE s

Strip(s) == RStrip(LStrip(s))

UpperChar(c) ==
    CASE c = "a" -> "A" [] c = "c" -> "C" [] c = "d" -> "D" [] c = "e" -> "E"
      [] c = "i" -> "I" [] c = "n" -> "N" [] c = "o" -> "O" [] c = "p" -> "P"
      [] c = "s" -> "S" [] c = "t" -> "T" [] c = "u" -> "U" [] c = "v" -> "V"
      [] OTHER -> c

Upper(s) == [i \in 1..Len(s) |-> UpperChar(s[i])]

\* s.replace(old, new) for one-character old
ReplaceChar(s, old, new) == [i \in 1..Len(s) |-> IF s[i] = old THEN new ELSE s[i]]

\* s.replace(old, "")
RemoveChar(s, old) == SelectSeq(s, LAMBDA c : c # old)

\* the characters of the model in code-point order
CharOrder ==
    <<" ", "%", "'", "-", ".", "0", "1", "2", "3", "4", "5", "6", "7", "8", "9",
      "A", "C", "D", "E", "I", "N", "O", "P", "S", "T", "U", "V", "_",
      "a", "b", "c", "d", "e", "i", "n", "o", "p", "s", "t", "u", "v", "x", "|">>

Ord(c) == CHOOSE i \in 1..Len(CharOrder) : CharOrder[i] = c

\* Python's str < str
RECURSIVE StrLess(_, _)
StrLess(a, b) ==
    IF b = <<>> THEN FALSE
    ELSE IF a = <<>> THEN TRUE
    ELSE IF Head(a) = Head(b) THEN StrLess(Tail(a), Tail(b))
    ELSE Ord(Head(a)) < Ord(Head(b))

StrLeq(a, b) == a = b \/ StrLess(a, b)

Digits == <<"0", "1", "2", "3", "4", "5", "6", "7", "8", "9">>
IsDigit(c) == \E i \in 1..10 : Digits[i] = c
DigitVal(c) == (CHOOSE i \in 1..10 : Digits[i] = c) - 1

----------------------------------------------------------------------------
(* HELPERS *)

\* ymd: the day-of-month part of strftime("%Y-%m-%d"), zero padded; the
\* "YYYY-MM-" prefix is the same for every date of the modelled month
ymd(d) == <<Digits[(d \div 10) + 1], Digits[(d % 10) + 1]>>

\* re.match(r"^\s*\d-([^_]+)", ad_name).group(1), or ""
RECURSIVE TakeUntilUnderscore(_)
TakeUntilUnderscore(s) ==
    IF s = <<>> \/ Head(s) = "_" THEN <<>>
    ELSE <<Head(s)>> \o TakeUntilUnderscore(Tail(s))

parse_channel_id(ad_name) ==
    IF ad_name = NaN THEN <<>>
    ELSE LET t == LStrip(ad_name)
         IN  IF Len(t) >= 3 /\ IsDigit(t[1]) /\ t[2] = "-"
             THEN TakeUntilUnderscore(SubSeq(t, 3, Len(t)))
             ELSE <<>>

\* parse_account: the leading digit when it is followed by "-"
parse_account(ad_name) ==
    IF ad_name = NaN THEN <<>>
    ELSE LET t == Strip(ad_name)
         IN  IF Len(t) >= 2 /\ IsDigit(t[1]) /\ t[2] = "-" THEN <<t[1]>> ELSE <<>>

----------------------------------------------------------------------------
(* Numbers *)

\* a numeric cell: <<"num", v>>, a missing value <<"nan", 0>>, or text that is
\* no number <<"txt", 0>>
Num(v) == <<"num", v>>
NumNaN == <<"nan", 0>>
NumTxt == <<"txt", 0>>

\* pd.to_numeric(col, errors="coerce").fillna(0.0)
to_numeric_fill0(cell) == IF cell[1] = "num" THEN cell[2] ELSE 0

RECURSIVE DigitsVal(_)
DigitsVal(s) == IF s = <<>> THEN 0 ELSE DigitsVal(SubSeq(s, 1, Len(s) - 1)) * 10 + DigitVal(s[Len(s)])

AllDigits(s) == \A i \in 1..Len(s) : IsDigit(s[i])

DotAt(s) == IF \E i \in 1..Len(s) : s[i] = "." THEN CHOOSE i \in 1..Len(s) : s[i] = "." ELSE 0

\* float(s) in ten-thousandths: "nan" is the missing value, digits with at most
\* two fractional digits are a number, anything else raises ValueError ("err")
ParseFloatE4(s) ==
    IF s = <<"n", "a", "n">> THEN NumNaN
    ELSE LET dot  == DotAt(s)
             ip   == IF dot = 0 THEN s ELSE SubSeq(s, 1, dot - 1)
             fp   == IF dot = 0 THEN <<>> ELSE SubSeq(s, dot + 1, Len(s))
             fp2  == IF Len(fp) = 0 THEN <<"0", "0">>
                     ELSE IF Len(fp) = 1 THEN fp \o <<"0">> ELSE fp
         IN  IF Len(ip) + Len(fp) > 0 /\ AllDigits(ip) /\ AllDigits(fp) /\ Len(fp) <= 2
             THEN Num(DigitsVal(ip) * 10000 + DigitsVal(fp2) * 100)
             ELSE <<"err", 0>>

\* the bug of turning a missing baseline into 0 (a fillna(0) before parsing)
clean_roas_column_fill0(cell) ==
    LET s1 == Strip(RemoveChar(IF cell = NaN THEN <<>> ELSE cell, "%"))
        s2 == IF s1 = <<>> THEN <<"0">> ELSE s1
        f  == ParseFloatE4(s2)
    IN  IF f[1] = "num" THEN Num(f[2] \div 100) ELSE f

\* clean_roas_column, one element: str, drop "%", strip, "" -> "0", float, / 100
clean_roas_column(cell) ==
    LET s1 == Strip(RemoveChar(Str(cell), "%"))
        s2 == IF s1 = <<>> THEN <<"0">> ELSE s1
        f  == ParseFloatE4(s2)
    IN  IF f[1] = "num" THEN Num(f[2] \div 100) ELSE f

\* revenue / spend as pandas computes it: x/0 is inf, 0/0 is NaN
FloatDiv(rev, spend) ==
    IF spend = 0 THEN (IF rev = 0 THEN <<"nan", 0, 1>> ELSE <<"inf", 0, 1>>)
    ELSE <<"fin", rev, spend>>

\* the bug of replacing the infinities and forgetting fillna(0)
ReplaceInf_only(r) == IF r[1] = "inf" THEN <<"fin", 0, 1>> ELSE r

\* .replace([inf, -inf], 0).fillna(0)
ReplaceInfFillna(r) == IF r[1] = "fin" THEN r ELSE <<"fin", 0, 1>>

RecomputeRoas(rev, spend) == ReplaceInfFillna(FloatDiv(rev, spend))

----------------------------------------------------------------------------
(* Data frames: sequences of records *)

Range(s) == {s[i] : i \in 1..Len(s)}

RECURSIVE SumField(_, _)
SumField(s, f) == IF s = <<>> THEN 0 ELSE Head(s)[f] + SumField(Tail(s), f)

\* df.merge(right[[Channel, ROAS -> col]], on="Custom Channel ID", how="left")
RECURSIVE MergeBaseline(_, _, _)
MergeBaseline(left, right, col) ==
    IF left = <<>> THEN <<>>
    ELSE LET row == Head(left)
             m   == SelectSeq(right, LAMBDA r : Strip(Str(r.Channel)) = row.Channel)
             out == IF m = <<>> THEN <<[row EXCEPT ![col] = NaN]>>
                    ELSE [i \in 1..Len(m) |-> [row EXCEPT ![col] = m[i].ROAS]]
         IN  out \o MergeBaseline(Tail(left), right, col)

\* group keys in sorted order, as groupby(..., as_index=False) emits them.
\* Account, Domain, Buying Method, Category and Locale are functions of the
\* Ad Name, so the identity tuple is decided by (Ad Name, Custom Channel ID).
KeyOf(r) == <<r.AdName, r.Channel>>

KeyLeq(a, b) == StrLess(a[1], b[1]) \/ (a[1] = b[1] /\ StrLeq(a[2], b[2]))

RECURSIVE SortKeys(_)
SortKeys(S) ==
    IF S = {} THEN <<>>
    ELSE LET m == CHOOSE k \in S : \A o \in S : KeyLeq(k, o)
         IN  <<m>> \o SortKeys(S \ {m})

GroupRows(s, k) == SelectSeq(s, LAMBDA r : KeyOf(r) = k)

\* df.groupby(group_cols, as_index=False)[[Spend, Revenue, Profit]].sum()
GroupBySum(s) ==
    LET ks == SortKeys({KeyOf(r) : r \in Range(s)})
    IN  [i \in 1..Len(ks) |->
            LET g == GroupRows(s, ks[i])
            IN  [AdName  |-> ks[i][1], Channel |-> ks[i][2],
                 Account |-> g[1].Account,
                 Spend   |-> SumField(g, "Spend"),
                 Revenue |-> SumField(g, "Revenue"),
                 Profit  |-> SumField(g, "Profit")]]

\* sort_values(by=[Custom Channel ID, Ad Name], kind="mergesort"): stable
SortKeyLeq(a, b) ==
    StrLess(a.Channel, b.Channel) \/ (a.Channel = b.Channel /\ StrLeq(Str(a.AdName), Str(b.AdName)))

RECURSIVE InsertStable(_, _)
InsertStable(s, r) ==
    IF s = <<>> THEN <<r>>
    ELSE IF SortKeyLeq(Head(s), r) THEN <<Head(s)>> \o InsertStable(Tail(s), r)
    ELSE <<r>> \o s

RECURSIVE SortStable(_)
SortStable(s) ==
    IF s = <<>> THEN <<>>
    ELSE InsertStable(SortStable(SubSeq(s, 1, Len(s) - 1)), s[Len(s)])

----------------------------------------------------------------------------
(* Bounds and input sets *)

MaxPerfRows == 2
MaxRoasRows == 2

\* the days that carry records and that the operator can select: three
\* consecutive days across a change of the tens digit
Days == 9..11

AdA == <<"1", "-", "a", "_", "x">>
AdB == <<"2", "-", "b", "_", "x">>

\* (Ad Name, Custom Channel ID cell): an id with a leading blank, another ad
\* on the same channel, and a blank cell to be derived from the name
NameChannelCells == {<<AdA, <<" ", "a">>>>, <<AdB, <<"a">>>>, <<AdB, <<>>>>}

\* (ROAS cell, Spend, Revenue, Profit cells) of a sheet row: a percent text
\* with a profit cell that is not revenue - spend, a bare decimal with revenue
\* and no spend, and an empty row
Payloads ==
    { <<<<"1", "2", "0", "%">>, Num(100), Num(120), Num(7)>>,
      <<<<"1", ".", "2">>,      Num(0),   Num(50),  Num(50)>>,
      <<<<>>,                   NumTxt,   NumTxt,   NumTxt>> }

PerfRecord(d, nc, p) ==
    [Date |-> ymd(d), AdName |-> nc[1], Channel |-> nc[2],
     ROAS |-> p[1], Spend |-> p[2], Revenue |-> p[3], Profit |-> p[4]]

PerfRecords == {PerfRecord(d, nc, p) : d \in Days, nc \in NameChannelCells, p \in Payloads}

SeqsUpTo(S, n) == UNION {[1..k -> S] : k \in 0..n}

PassInit ==
    /\ roas_df = <<>>
    /\ man_df = <<>>
    /\ pc = "start"
    /\ view_mode = ""
    /\ sel_start = 0
    /\ sel_end = 0
    /\ df = <<>>
    /\ status_filter = "All"
    /\ clicked = "none"
    /\ idx = 0
    /\ widgets = <<>>
    /\ seen_widget_ids = {}
    /\ batched_changes = <<>>
    /\ api_calls = <<>>
    /\ messages = <<>>
    /\ successes = 0
    /\ failures = 0

InitView ==
    /\ roas_sheet \in SeqsUpTo(PerfRecords, MaxPerfRows)
    /\ man_sheet = <<>>
    /\ PassInit

----------------------------------------------------------------------------
(* The pass, up to the view *)

\* a notice on the page: st.warning / st.success / st.error; row is the view
\* row it is about (0: none), n a count it reports
Notice(kind, text, row, n) == [kind |-> kind, text |-> text, row |-> row, n |-> n]

Warn(text) == Notice("warning", text, 0, 0)

\* read_ws: the worksheet's records, or an empty frame when the read raises
read_ws(sheet, ok) == IF ok THEN sheet ELSE <<>>

\* roas_df = read_ws("ROAS"); man_df = read_ws("Manual Control")
ReadSheets(roas_ok, man_ok) ==
    /\ pc = "start"
    /\ roas_df' = read_ws(roas_sheet, roas_ok)
    /\ man_df' = read_ws(man_sheet, man_ok)
    /\ pc' = "loaded"
    /\ UNCHANGED <<sheets, selection, df, filters, loop, api_calls, messages, counters>>

\* the bug of a guard that never fires
empty_never(frame) == FALSE

\* DataFrame.empty
empty(frame) == frame = <<>>

\* GUARDS: an empty ROAS frame is warned about and st.stop() ends the pass
GuardStop ==
    /\ pc = "loaded"
    /\ empty(roas_df)
    /\ messages' = Append(messages, Warn("ROAS sheet is empty or not accessible."))
    /\ pc' = "stopped"
    /\ UNCHANGED <<sheets, roas_df, man_df, selection, df, filters, loop, api_calls, counters>>

\* one row of the normalised ROAS table (every documented column is present
\* in the sheet): numeric parsing, enrichment, channel id fallback
NormalizeRow(r) ==
    [Date    |-> r.Date,
     AdName  |-> r.AdName,
     ROAS    |-> r.ROAS,
     Spend   |-> to_numeric_fill0(r.Spend),
     Revenue |-> to_numeric_fill0(r.Revenue),
     Profit  |-> to_numeric_fill0(r.Profit),
     Account |-> parse_account(r.AdName),
     Channel |-> IF r.Channel = NaN \/ Strip(Str(r.Channel)) = <<>>
                 THEN parse_channel_id(r.AdName) ELSE r.Channel]

Normalize ==
    /\ pc = "loaded"
    /\ ~empty(roas_df)
    /\ roas_df' = [i \in 1..Len(roas_df) |-> NormalizeRow(roas_df[i])]
    /\ pc' = "normalized"
    /\ UNCHANGED <<sheets, man_df, selection, df, filters, loop, api_calls, messages, counters>>

\* "Single day": df = roas_df[Date == date_str]; an empty result stops the pass
SingleFilter(frame, d) == SelectSeq(frame, LAMBDA r : r.Date = ymd(d))

SelectSingle(d) ==
    /\ pc = "normalized"
    /\ view_mode' = "Single day"
    /\ sel_start' = d
    /\ sel_end' = d
    /\ df' = SingleFilter(roas_df, d)
    /\ IF empty(df')
       THEN /\ messages' = Append(messages, Warn("No data available for the selected date."))
            /\ pc' = "stopped"
       ELSE /\ pc' = "selected"
            /\ UNCHANGED messages
    /\ UNCHANGED <<sheets, roas_df, man_df, filters, loop, api_calls, counters>>

\* the bug of an exclusive end of the range
RangeFilter_exclusive(frame, s, e) ==
    SelectSeq(frame, LAMBDA r : StrLeq(ymd(s), r.Date) /\ StrLess(r.Date, ymd(e)))

\* "Date range": df = roas_df[(Date >= start_str) & (Date <= end_str)], the
\* dates compared as strings
RangeFilter(frame, s, e) ==
    SelectSeq(frame, LAMBDA r : StrLeq(ymd(s), r.Date) /\ StrLeq(r.Date, ymd(e)))

SelectRange(s, e) ==
    /\ pc = "normalized"
    /\ view_mode' = "Date range"
    /\ sel_start' = s
    /\ sel_end' = e
    /\ df' = RangeFilter(roas_df, s, e)
    /\ IF empty(df')
       THEN /\ messages' = Append(messages, Warn("No data available for the selected range."))
            /\ pc' = "stopped"
       ELSE /\ pc' = "selected"
            /\ UNCHANGED messages
    /\ UNCHANGED <<sheets, roas_df, man_df, filters, loop, api_calls, counters>>

show_dbf == view_mode = "Single day"

\* CALCULATIONS, single day: DBF and 2DBF joined by Custom Channel ID
AttachBaselines(view, frame, d) ==
    LET roas_prev  == SingleFilter(frame, d - 1)
        roas_prev2 == SingleFilter(frame, d - 2)
        left == [i \in 1..Len(view) |->
                    [Date |-> view[i].Date, AdName |-> view[i].AdName,
                     Channel |-> Strip(Str(view[i].Channel)),
                     Account |-> view[i].Account,
                     Spend |-> view[i].Spend, Revenue |-> view[i].Revenue,
                     Profit |-> view[i].Profit, DBF |-> NaN, DBF2 |-> NaN]]
    IN  MergeBaseline(MergeBaseline(left, roas_prev, "DBF"), roas_prev2, "DBF2")

\* CALCULATIONS, range: sums per identity tuple; DBF and 2DBF are None and
\* there is no Date column
Aggregate(view) ==
    LET g == GroupBySum(view)
    IN  [i \in 1..Len(g) |->
            [Date |-> <<>>, AdName |-> g[i].AdName, Channel |-> g[i].Channel,
             Account |-> g[i].Account,
             Spend |-> g[i].Spend, Revenue |-> g[i].Revenue,
             Profit |-> g[i].Profit, DBF |-> NaN, DBF2 |-> NaN]]

\* Recompute ROAS safely: profit and ratio from the row's spend and revenue
Recompute(r) ==
    [Date |-> r.Date, AdName |-> r.AdName, Channel |-> r.Channel,
     Account |-> r.Account, Spend |-> r.Spend, Revenue |-> r.Revenue,
     Profit |-> r.Revenue - r.Spend,
     ROAS |-> RecomputeRoas(r.Revenue, r.Spend),
     DBF |-> r.DBF, DBF2 |-> r.DBF2]

\* the baseline columns after the mode's last step: cleaned in single-day
\* mode, left null in range mode
CleanBaselines(r, single) ==
    IF single
    THEN [r EXCEPT !.DBF = clean_roas_column(r.DBF), !.DBF2 = clean_roas_column(r.DBF2)]
    ELSE [r EXCEPT !.DBF = NumNaN, !.DBF2 = NumNaN]

BuildView(frame, view, single, d) ==
    LET v1 == IF single THEN AttachBaselines(view, frame, d) ELSE Aggregate(view)
    IN  [i \in 1..Len(v1) |-> CleanBaselines(Recompute(v1[i]), single)]

\* astype(float) raises ValueError on a baseline cell that is no number
CleanRaises(v) == \E i \in 1..Len(v) : v[i].DBF[1] = "err" \/ v[i].DBF2[1] = "err"

Calculate ==
    /\ pc = "selected"
    /\ LET v == BuildView(roas_df, df, show_dbf, sel_start)
       IN  IF CleanRaises(v)
           THEN /\ pc' = "crashed"
                /\ UNCHANGED df
           ELSE /\ pc' = "calculated"
                /\ df' = v
    /\ UNCHANGED <<sheets, roas_df, man_df, selection, filters, loop, api_calls, messages, counters>>

NextView ==
    \/ \E a, b \in BOOLEAN : ReadSheets(a, b)
    \/ GuardStop
    \/ Normalize
    \/ \E d \in Days : SelectSingle(d)
    \/ \E s, e \in Days : s <= e /\ SelectRange(s, e)
    \/ Calculate

SpecView == InitView /\ [][NextView]_vars

----------------------------------------------------------------------------
(* The rest of the pass: control merge, filter, rows, Apply All *)

ACTIVE == <<"A", "C", "T", "I", "V", "E">>
PAUSED == <<"P", "A", "U", "S", "E", "D">>

\* half a currency unit, in thousandths: the deadband of budget_changed
HalfUnit == 500

\* df.merge(man_df[need_cols], on="Ad Name", how="left") and the app-only
\* columns; Current Budget (ILS) is to_numeric(...).fillna(0.0) in man_df and
\* missing where no control row matches
ControlColumns(row, m) ==
    [Date |-> row.Date, AdName |-> row.AdName, Channel |-> row.Channel,
     Account |-> row.Account, Spend |-> row.Spend, Revenue |-> row.Revenue,
     Profit |-> row.Profit, ROAS |-> row.ROAS, DBF |-> row.DBF, DBF2 |-> row.DBF2,
     AdSetId |-> m.AdSetId, CurrentStatus |-> m.Status,
     CurrentBudget |-> m.Budget, NewBudget |-> 0, NewStatus |-> NaN]

NoControl == [AdSetId |-> NaN, Status |-> NaN, Budget |-> NumNaN]

RECURSIVE MergeControl(_, _)
MergeControl(view, man) ==
    IF view = <<>> THEN <<>>
    ELSE LET row == Head(view)
             m   == SelectSeq(man, LAMBDA c : c.AdName = row.AdName)
             out == IF m = <<>> THEN <<ControlColumns(row, NoControl)>>
                    ELSE [i \in 1..Len(m) |->
                            ControlColumns(row, [AdSetId |-> m[i].AdSetId,
                                                 Status  |-> m[i].Status,
                                                 Budget  |-> Num(to_numeric_fill0(m[i].Budget))])]
         IN  out \o MergeControl(Tail(view), man)

Merge ==
    /\ pc = "calculated"
    /\ df' = MergeControl(df, man_df)
    /\ pc' = "merged"
    /\ UNCHANGED <<sheets, roas_df, man_df, selection, filters, loop, api_calls, messages, counters>>

\* Status For Filter: New Status where it is not null, else Current Status;
\* str, upper, strip; "NONE" and "NAN" become ""
StatusForFilter(row) ==
    LET s0 == IF row.NewStatus # NaN THEN row.NewStatus ELSE row.CurrentStatus
        s1 == Strip(Upper(Str(s0)))
    IN  IF s1 = <<"N", "O", "N", "E">> \/ s1 = <<"N", "A", "N">> THEN <<>> ELSE s1

\* the status filter of "Apply filters"
PassesStatus(row, sf) ==
    CASE sf = "ACTIVE only" -> StatusForFilter(row) = ACTIVE
      [] sf = "PAUSED only" -> StatusForFilter(row) = PAUSED
      [] OTHER -> TRUE

\* the channel id made a trimmed string again before the sort, a blank one
\* derived from the name
SortChannel(row) ==
    LET c == Strip(Str(row.Channel))
    IN  [row EXCEPT !.Channel = IF c = <<>> THEN parse_channel_id(row.AdName) ELSE c]

ApplyFilters(view, sf) ==
    LET kept == SelectSeq(view, LAMBDA r : PassesStatus(r, sf))
    IN  SortStable([i \in 1..Len(kept) |-> SortChannel(kept[i])])

\* FILTERS ROW, Apply filters and the sort; the account, category, domain and
\* locale selectors stay at "All"
FilterSort(sf) ==
    /\ pc = "merged"
    /\ status_filter' = sf
    /\ df' = ApplyFilters(df, sf)
    /\ idx' = 1
    /\ pc' = IF df' = <<>> THEN "rendered" ELSE "rows"
    /\ UNCHANGED <<sheets, roas_df, man_df, selection, clicked, widgets,
                   seen_widget_ids, batched_changes, api_calls, messages, counters>>

\* str(row.get("Ad Set ID", "")).strip().replace("'", "")
AdsetIdOf(row) == RemoveChar(Strip(Str(row.AdSetId)), "'")

ModeText == IF show_dbf THEN <<"S", "i", "n", "g", "l", "e", " ", "d", "a", "y">>
            ELSE <<"D", "a", "t", "e", " ", "r", "a", "n", "g", "e">>

\* base_uid: the ad set id, else channel|name|date-or-mode, blanks as "_"
BaseUid(row) ==
    LET the_date == Strip(Str(row.Date))
        composite == Strip(Str(row.Channel)) \o <<"|">> \o Strip(Str(row.AdName))
                     \o <<"|">> \o (IF the_date # <<>> THEN the_date ELSE ModeText)
    IN  ReplaceChar(IF AdsetIdOf(row) # <<>> THEN AdsetIdOf(row) ELSE composite, " ", "_")

\* uniq_key gives back the base key the first time only; a repeated base gets
\* a random suffix, so that widget is a new one in every pass
StableKey(row) == <<"budget", BaseUid(row)>> \notin seen_widget_ids

\* str(row.get("Current Status", "ACTIVE")).upper().strip()
CurStatusOf(row) == Strip(Upper(Str(row.CurrentStatus)))

\* options[status_index]
DefaultStatus(cur_status) == IF cur_status = ACTIVE THEN ACTIVE ELSE PAUSED

Abs(x) == IF x < 0 THEN -x ELSE x

\* (new_budget > 0) and (abs(new_budget - current_budget) >= 0.5); a
\* comparison with a missing current budget is False
BudgetChanged(new_budget, current_budget) ==
    /\ new_budget > 0
    /\ current_budget[1] = "num"
    /\ Abs(new_budget - current_budget[2]) >= HalfUnit

StatusChanged(new_status, cur_status) == new_status # cur_status

\* the bug of dropping round(): int(new_budget * 100) truncates
MinorUnits_truncated(new_budget) == new_budget \div 10

\* int(round(new_budget * 100)): thousandths to minor units, a half to even
MinorUnits(new_budget) ==
    LET q == new_budget \div 10
        r == new_budget % 10
    IN  IF r < 5 THEN q
        ELSE IF r > 5 THEN q + 1
        ELSE IF q % 2 = 0 THEN q ELSE q + 1

NoParams == [k \in {} |-> 0]

\* the bug of sending the status along with every budget change
UpdateParams_with_status(new_budget, new_status, current_budget, cur_status) ==
    (IF BudgetChanged(new_budget, current_budget)
        THEN [daily_budget |-> MinorUnits(new_budget), status |-> new_status] ELSE NoParams)
    @@ (IF StatusChanged(new_status, cur_status)
        THEN [status |-> new_status] ELSE NoParams)

UpdateParams(new_budget, new_status, current_budget, cur_status) ==
    (IF BudgetChanged(new_budget, current_budget)
        THEN [daily_budget |-> MinorUnits(new_budget)] ELSE NoParams)
    @@ (IF StatusChanged(new_status, cur_status)
        THEN [status |-> new_status] ELSE NoParams)

\* the bug of testing the parameters alone
HasValidUpdate_params_only(adset_id, update_params) == update_params # NoParams

\* if adset_id and update_params
HasValidUpdate(adset_id, update_params) == adset_id # <<>> /\ update_params # NoParams

\* what the operator can type into New Budget, in thousandths: nothing, 100.6,
\* 100.917 and 101
ProposedBudgets == {0, 100600, 100917, 101000}

Call(adset_id, params, ok, via) ==
    [adset_id |-> adset_id, params |-> params, ok |-> ok, via |-> via]

\* one iteration of "for i, row in df.iterrows()": the widgets, change
\* detection, the pending batch and the row's Apply button
Row(nb, ns, press, ok) ==
    /\ pc = "rows"
    /\ idx <= Len(df)
    /\ LET row            == df[idx]
           adset_id       == AdsetIdOf(row)
           stable         == StableKey(row)
           cur_status     == CurStatusOf(row)
           current_budget == row.CurrentBudget
           update_params  == UpdateParams(nb, ns, current_budget, cur_status)
           valid          == HasValidUpdate(adset_id, update_params)
       IN  /\ stable \/ (nb = row.NewBudget /\ ns = DefaultStatus(cur_status))
           /\ press => (stable /\ clicked = "none")
           /\ (press /\ valid) \/ ok
           /\ seen_widget_ids' = seen_widget_ids \cup
                 (IF stable
                  THEN {<<"budget", BaseUid(row)>>, <<"status", BaseUid(row)>>, <<"apply", BaseUid(row)>>}
                  ELSE {<<"budget", BaseUid(row), idx>>, <<"status", BaseUid(row), idx>>, <<"apply", BaseUid(row), idx>>})
           /\ widgets' = Append(widgets,
                 [new_budget |-> nb, new_status |-> ns, pressed |-> press,
                  default_status |-> DefaultStatus(cur_status),
                  adset_id |-> adset_id, cur_status |-> cur_status,
                  current_budget |-> current_budget, params |-> update_params])
           /\ batched_changes' =
                 IF valid
                 THEN Append(batched_changes,
                             [adset_id |-> adset_id, ad_name |-> row.AdName, params |-> update_params])
                 ELSE batched_changes
           /\ clicked' = IF press THEN "row" ELSE clicked
           /\ api_calls' = IF press /\ valid
                           THEN Append(api_calls, Call(adset_id, update_params, ok, "row"))
                           ELSE api_calls
           /\ messages' =
                 IF ~press THEN messages
                 ELSE IF ~valid THEN Append(messages, Notice("warning", "No valid updates", idx, 0))
                 ELSE IF ok THEN Append(messages, Notice("success", "Updated", idx, 0))
                 ELSE Append(messages, Notice("error", "Failed to update", idx, 0))
    /\ idx' = IF idx = Len(df) THEN 1 ELSE idx + 1
    /\ pc' = IF idx = Len(df) THEN "rendered" ELSE "rows"
    /\ UNCHANGED <<sheets, roas_df, man_df, selection, df, filters, counters>>

\* the pass ends with "Apply All Changes" not pressed
EndPass ==
    /\ pc = "rendered"
    /\ pc' = "done"
    /\ UNCHANGED <<sheets, roas_df, man_df, selection, df, filters, loop, api_calls, messages, counters>>

\* if st.button("Apply All Changes"): successes, failures = 0, 0
ApplyAllStart ==
    /\ pc = "rendered"
    /\ clicked = "none"
    /\ clicked' = "all"
    /\ idx' = 1
    /\ successes' = 0
    /\ failures' = 0
    /\ pc' = "applying"
    /\ UNCHANGED <<sheets, roas_df, man_df, selection, df, filters, widgets,
                   seen_widget_ids, batched_changes, api_calls, messages>>

\* the bug of leaving the loop at the first failure
NextRequest_abort(i, ok) == IF ok THEN i + 1 ELSE Len(batched_changes) + 1

\* the position after request i, whose update succeeded (ok) or raised
NextRequest(i, ok) == i + 1

\* for upd in batched_changes: try api_update, count, report a failure
ApplyAllStep(ok) ==
    /\ pc = "applying"
    /\ idx <= Len(batched_changes)
    /\ LET upd == batched_changes[idx]
       IN  /\ api_calls' = Append(api_calls, Call(upd.adset_id, upd.params, ok, "batch"))
           /\ successes' = IF ok THEN successes + 1 ELSE successes
           /\ failures' = IF ok THEN failures ELSE failures + 1
           /\ messages' = IF ok THEN messages
                          ELSE Append(messages, Notice("error", "update failed", 0, idx))
    /\ idx' = NextRequest(idx, ok)
    /\ UNCHANGED <<sheets, roas_df, man_df, selection, df, filters, clicked, widgets,
                   seen_widget_ids, batched_changes, pc>>

\* after the loop: the success and the failure summary
ApplyAllFinish ==
    /\ pc = "applying"
    /\ idx > Len(batched_changes)
    /\ messages' = messages
          \o (IF successes > 0 THEN <<Notice("success", "Applied", 0, successes)>> ELSE <<>>)
          \o (IF failures > 0 THEN <<Notice("warning", "update(s) failed", 0, failures)>> ELSE <<>>)
    /\ pc' = "done"
    /\ UNCHANGED <<sheets, roas_df, man_df, selection, df, filters, loop, api_calls, counters>>

\* Streamlit runs the script again from the top
Rerun ==
    /\ pc \in {"done", "stopped", "crashed"}
    /\ roas_df' = <<>>
    /\ man_df' = <<>>
    /\ pc' = "start"
    /\ view_mode' = ""
    /\ sel_start' = 0
    /\ sel_end' = 0
    /\ df' = <<>>
    /\ status_filter' = "All"
    /\ clicked' = "none"
    /\ idx' = 0
    /\ widgets' = <<>>
    /\ seen_widget_ids' = {}
    /\ batched_changes' = <<>>
    /\ api_calls' = <<>>
    /\ messages' = <<>>
    /\ successes' = 0
    /\ failures' = 0
    /\ UNCHANGED sheets

----------------------------------------------------------------------------
(* The whole pass *)

\* control rows for ad A: a quoted id, an id that is only a quote, a blank
\* id; a lower-case padded status, a blank status; a budget cell that is text
ControlsA ==
    { [AdName |-> AdA, AdSetId |-> <<"'", "7">>, Budget |-> Num(100400), Status |-> ACTIVE],
      [AdName |-> AdA, AdSetId |-> <<"'", "7">>, Budget |-> Num(100400), Status |-> <<"p", "a", "u", "s", "e", "d", " ">>],
      [AdName |-> AdA, AdSetId |-> <<"'", "7">>, Budget |-> NumTxt,      Status |-> <<>>],
      [AdName |-> AdA, AdSetId |-> <<"'">>,      Budget |-> Num(100400), Status |-> ACTIVE],
      [AdName |-> AdA, AdSetId |-> <<>>,         Budget |-> Num(100400), Status |-> <<"p", "a", "u", "s", "e", "d", " ">>] }

ControlB == [AdName |-> AdB, AdSetId |-> <<"'", "8">>, Budget |-> Num(100400), Status |-> ACTIVE]

\* a control sheet has at most one row per ad name
ControlSheets ==
    {<<>>} \cup {<<a>> : a \in ControlsA} \cup {<<ControlB>>}
    \cup {<<a, ControlB>> : a \in ControlsA}

\* the ROAS rows used while the rest of the pass is examined
PerfA == PerfRecord(9, <<AdA, <<"a">>>>, <<<<"1", "2", "0", "%">>, Num(100), Num(120), Num(20)>>)
PerfB == PerfRecord(9, <<AdB, <<"b">>>>, <<<<"8", "0", "%">>, Num(100), Num(80), Num(-20)>>)

Init ==
    /\ roas_sheet \in SeqsUpTo({PerfA, PerfB}, MaxRoasRows)
    /\ man_sheet \in ControlSheets
    /\ PassInit

Next ==
    \/ \E a, b \in BOOLEAN : ReadSheets(a, b)
    \/ GuardStop
    \/ Normalize
    \/ \E d \in Days : SelectSingle(d)
    \/ \E s, e \in Days : s <= e /\ SelectRange(s, e)
    \/ Calculate
    \/ Merge
    \/ \E sf \in {"All", "ACTIVE only", "PAUSED only"} : FilterSort(sf)
    \/ \E nb \in ProposedBudgets, ns \in {ACTIVE, PAUSED}, press, ok \in BOOLEAN : Row(nb, ns, press, ok)
    \/ EndPass
    \/ ApplyAllStart
    \/ \E ok \in BOOLEAN : ApplyAllStep(ok)
    \/ ApplyAllFinish
    \/ Rerun

Spec == Init /\ [][Next]_vars

----------------------------------------------------------------------------
(* Change detection and the pending batch *)

\* the rows the loop has rendered so far
Rendered == 1..Len(widgets)

\* the proposed budget of row i differs materially from its current budget
MaterialBudget(i) ==
    /\ widgets[i].new_budget > 0
    /\ df[i].CurrentBudget[1] = "num"
    /\ \/ widgets[i].new_budget - df[i].CurrentBudget[2] >= 500
       \/ df[i].CurrentBudget[2] - widgets[i].new_budget >= 500

\* the proposed status of row i differs from its current status, upper-cased
\* and trimmed
MaterialStatus(i) == widgets[i].new_status # Strip(Upper(Str(df[i].CurrentStatus)))

ChangedFields(i) ==
    (IF MaterialBudget(i) THEN {"daily_budget"} ELSE {})
    \cup (IF MaterialStatus(i) THEN {"status"} ELSE {})

TargetOf(i) == RemoveChar(Strip(Str(df[i].AdSetId)), "'")

\* the rendered rows that have a target and a change, in row order
RECURSIVE QueuedRows(_)
QueuedRows(n) ==
    IF n = 0 THEN <<>>
    ELSE QueuedRows(n - 1)
         \o (IF TargetOf(n) # <<>> /\ ChangedFields(n) # {} THEN <<n>> ELSE <<>>)

\* C1: every request of the pending batch comes from one rendered row, in row
\* order; it has a non-empty ad-set id and a non-empty set of fields, and its
\* fields are exactly the changed ones: daily_budget iff the budget change is
\* material, status iff the proposed status differs from the current one.
C1_BatchWellFormed ==
    LET q == QueuedRows(Len(widgets))
    IN  /\ Len(batched_changes) = Len(q)
        /\ \A k \in 1..Len(batched_changes) :
              /\ batched_changes[k].adset_id # <<>>
              /\ batched_changes[k].adset_id = TargetOf(q[k])
              /\ batched_changes[k].ad_name = df[q[k]].AdName
              /\ DOMAIN batched_changes[k].params # {}
              /\ DOMAIN batched_changes[k].params = ChangedFields(q[k])
              /\ "status" \in DOMAIN batched_changes[k].params
                    => batched_changes[k].params.status = widgets[q[k]].new_status

\* two rendered rows with changes: the first has no target and is left out,
\* the second is queued with both fields
C1_Witness ==
    /\ pc = "rendered"
    /\ Len(widgets) = 2
    /\ TargetOf(1) = <<>>
    /\ ChangedFields(1) # {}
    /\ Len(batched_changes) = 1
    /\ DOMAIN batched_changes[1].params = {"daily_budget", "status"}

----------------------------------------------------------------------------
(* Apply All Changes *)

BatchRun == clicked = "all" /\ pc \in {"applying", "done"}

\* the requests the batch loop has gone through
Attempted == IF pc = "done" THEN Len(batched_changes) ELSE idx - 1

CountOk(calls) == Cardinality({i \in 1..Len(calls) : calls[i].ok})

\* C2: while and after Apply All runs, the platform calls made are exactly the
\* requests gone through so far, one call each and in batch order, whatever
\* the earlier outcomes; successes + failures counts them, and when the run
\* is over all N requests have been submitted.
C2_ApplyAllAttemptsEach ==
    BatchRun =>
        /\ Attempted \in 0..Len(batched_changes)
        /\ Len(api_calls) = Attempted
        /\ \A k \in 1..Len(api_calls) :
              /\ api_calls[k].adset_id = batched_changes[k].adset_id
              /\ api_calls[k].params = batched_changes[k].params
        /\ successes = CountOk(api_calls)
        /\ failures = Len(api_calls) - CountOk(api_calls)
        /\ successes + failures = Attempted
        /\ pc = "done" => successes + failures = Len(batched_changes)

\* a finished run of two requests whose first update failed and whose second
\* succeeded
C2_Witness ==
    /\ BatchRun
    /\ pc = "done"
    /\ Len(batched_changes) = 2
    /\ Len(api_calls) = 2
    /\ ~api_calls[1].ok
    /\ api_calls[2].ok

----------------------------------------------------------------------------
(* Materiality of a budget change *)

\* C3: the daily_budget field of a row's parameters is there iff the proposed
\* budget is > 0 and at least half a unit away from the (numeric) current
\* budget; a proposal of 0 never yields it, 101 against 100.4 yields it,
\* 100.6 against 100.4 does not; its value is the whole number of minor units
\* nearest to proposed x 100.  With no current budget (no control row) there
\* is no field.
C3_BudgetMaterial ==
    \A i \in Rendered :
        LET nb  == widgets[i].new_budget
            cur == df[i].CurrentBudget
            has == "daily_budget" \in DOMAIN widgets[i].params
        IN  /\ cur[1] = "num" =>
                 (has <=> (nb > 0 /\ (nb - cur[2] >= 500 \/ cur[2] - nb >= 500)))
            /\ cur[1] # "num" => ~has
            /\ nb = 0 => ~has
            /\ (nb = 101000 /\ cur = Num(100400)) => has
            /\ (nb = 100600 /\ cur = Num(100400)) => ~has
            /\ has => LET v == widgets[i].params.daily_budget
                      IN  /\ v \in Int
                          /\ 10 * v - nb <= 5
                          /\ nb - 10 * v <= 5

\* 101 proposed against 100.4 (field 10100), 100.6 against 100.4 in another
\* row (no field), and 100.917 rounded up elsewhere is covered by the formula
C3_Witness ==
    /\ Len(widgets) = 2
    /\ df[1].CurrentBudget = Num(100400)
    /\ widgets[1].new_budget = 101000
    /\ "daily_budget" \in DOMAIN widgets[1].params
    /\ widgets[1].params.daily_budget = 10100
    /\ df[2].CurrentBudget = Num(100400)
    /\ widgets[2].new_budget = 100600
    /\ "daily_budget" \notin DOMAIN widgets[2].params

----------------------------------------------------------------------------
(* Rows with a change and no target *)

\* the rendered rows with a material change and an empty ad-set id
NoTargetRows == {i \in Rendered : TargetOf(i) = <<>> /\ ChangedFields(i) # {}}

AboutRow(i) == {m \in Range(messages) : m.row = i}

----------------------------------------------------------------------------
(* The guard on an empty ROAS table *)

\* C8: once the ROAS read has given an empty frame (the read raised, or the
\* sheet has no rows), the pass goes no further than the guard: no date scope
\* is chosen, no view is built, no row is rendered, no request is computed and
\* no update call is made; the stopped pass shows the warning.
C8_EmptySourceHalts ==
    (pc # "start" /\ roas_df = <<>>) =>
        /\ pc \in {"loaded", "stopped"}
        /\ view_mode = ""
        /\ df = <<>>
        /\ widgets = <<>>
        /\ batched_changes = <<>>
        /\ api_calls = <<>>
        /\ pc = "stopped" =>
              messages = <<Warn("ROAS sheet is empty or not accessible.")>>

\* the read of a sheet that has rows failed and the pass stopped at the guard
C8_Witness ==
    /\ pc = "stopped"
    /\ roas_sheet # <<>>
    /\ roas_df = <<>>
    /\ messages = <<Warn("ROAS sheet is empty or not accessible.")>>

----------------------------------------------------------------------------
(* The status filter *)

\* the operator's proposed status when it was set to something else than the
\* selector's default, else the current status
EffectiveStatus(i) ==
    IF widgets[i].new_status # widgets[i].default_status
    THEN widgets[i].new_status
    ELSE Strip(Upper(Str(df[i].CurrentStatus)))

\* C9 as claimed: the rows shown under "ACTIVE only" have the effective status
\* ACTIVE and those under "PAUSED only" have PAUSED, the effective status
\* being the proposed status when set.
C9_FilterOnEffectiveStatus ==
    \A i \in Rendered :
        /\ status_filter = "ACTIVE only" => EffectiveStatus(i) = ACTIVE
        /\ status_filter = "PAUSED only" => EffectiveStatus(i) = PAUSED

----------------------------------------------------------------------------
(* Rows without a control record *)

Unmatched(i) == \A k \in 1..Len(man_df) : man_df[k].AdName # df[i].AdName

\* the requests of the rendered rows that have no control record: the batch
\* keeps the row order, so they are found by the ad name
UnmatchedNames == {df[i].AdName : i \in {j \in Rendered : Unmatched(j)}}

\* C10 as claimed: a row whose ad name has no record in the control table
\* puts no request into the pending batch and causes no update call.
C10_UnmatchedNeverQueued ==
    /\ \A k \in 1..Len(batched_changes) : batched_changes[k].ad_name \notin UnmatchedNames
    /\ \A k \in 1..Len(api_calls) : api_calls[k].adset_id # <<"n", "a", "n">>

----------------------------------------------------------------------------
(* Baselines of the single-day view *)

SingleView == pc = "calculated" /\ view_mode = "Single day"

\* the normalised records of day d on the channel ch (channel ids trimmed)
RecordsOn(d, ch) ==
    {k \in 1..Len(roas_df) : roas_df[k].Date = ymd(d) /\ Strip(roas_df[k].Channel) = ch}

\* the ratio a ROAS cell records, in ten-thousandths: "120%" and the bare
\* decimal "1.2" both record 1.2; a blank cell records none and counts as 0
RecordedRatio(cell) ==
    CASE cell = <<"1", "2", "0", "%">> -> Num(12000)
      [] cell = <<"1", ".", "2">>      -> Num(12000)
      [] cell = <<>>                    -> Num(0)

\* a ROAS cell read as a percentage, in ten-thousandths: the number in the
\* cell, with or without "%", divided by 100; a blank cell is 0
PercentReading(cell) ==
    CASE cell = <<"1", "2", "0", "%">> -> Num(12000)
      [] cell = <<"1", ".", "2">>      -> Num(120)
      [] cell = <<>>                    -> Num(0)

\* C5 as claimed: baseline-1 (baseline-2) of a single-day view row is the
\* ratio recorded for its channel id on the previous day (two days before),
\* and null when that day has no record of the channel.
C5_BaselineIsRecordedRatio ==
    SingleView =>
        \A i \in 1..Len(df) :
            /\ IF RecordsOn(sel_start - 1, df[i].Channel) = {} THEN df[i].DBF = NumNaN
               ELSE \E k \in RecordsOn(sel_start - 1, df[i].Channel) :
                        df[i].DBF = RecordedRatio(roas_df[k].ROAS)
            /\ IF RecordsOn(sel_start - 2, df[i].Channel) = {} THEN df[i].DBF2 = NumNaN
               ELSE \E k \in RecordsOn(sel_start - 2, df[i].Channel) :
                        df[i].DBF2 = RecordedRatio(roas_df[k].ROAS)

\* C5, amended: baseline-1 (baseline-2) of a single-day view row is the ROAS
\* cell of a record of its channel id on the previous day (two days before)
\* read as a percentage, so "120%" gives 1.2, a bare 1.2 gives 0.012 and a
\* blank cell gives 0; it is null, not zero, when that day has no record of
\* the channel.
C5_BaselineIsPercentReading ==
    SingleView =>
        \A i \in 1..Len(df) :
            /\ IF RecordsOn(sel_start - 1, df[i].Channel) = {} THEN df[i].DBF = NumNaN
               ELSE \E k \in RecordsOn(sel_start - 1, df[i].Channel) :
                        df[i].DBF = PercentReading(roas_df[k].ROAS)
            /\ IF RecordsOn(sel_start - 2, df[i].Channel) = {} THEN df[i].DBF2 = NumNaN
               ELSE \E k \in RecordsOn(sel_start - 2, df[i].Channel) :
                        df[i].DBF2 = PercentReading(roas_df[k].ROAS)

\* the view of day 10 shows baseline-1 = 1.2 from a "120%" of day 9 on the
\* same channel, and a null baseline-2 as day 8 has no record
C5_Witness ==
    /\ SingleView
    /\ sel_start = 10
    /\ \E i \in 1..Len(df) : df[i].DBF = Num(12000) /\ df[i].DBF2 = NumNaN

----------------------------------------------------------------------------
(* Range aggregation *)

RangeView == pc = "calculated" /\ view_mode = "Date range"

IdentityKeys == {<<r.AdName, r.Channel>> : r \in Range(roas_df)}

\* the sum of a column over the rows of a view that carry the identity key
KeySum(view, key, col) ==
    SumField(SelectSeq(view, LAMBDA r : <<r.AdName, r.Channel>> = key), col)

\* the range view of the single day d, empty when the day has no record
DayView(d) == BuildView(roas_df, RangeFilter(roas_df, d, d), FALSE, d)

RECURSIVE SumOverDays(_, _, _, _)
SumOverDays(s, e, key, col) ==
    IF s > e THEN 0 ELSE KeySum(DayView(s), key, col) + SumOverDays(s + 1, e, key, col)

\* the records whose calendar day lies in the window
InWindow == SelectSeq(roas_df, LAMBDA r : \E d \in sel_start..sel_end : r.Date = ymd(d))

\* C6: the range view of [start, end] has, per identity tuple, the spend,
\* revenue and profit that the range views of the single days of the window
\* add up to, and its totals are those of all records dated in the window.
C6_RangeAdditive ==
    RangeView =>
        /\ \A key \in IdentityKeys :
              /\ KeySum(df, key, "Spend") = SumOverDays(sel_start, sel_end, key, "Spend")
              /\ KeySum(df, key, "Revenue") = SumOverDays(sel_start, sel_end, key, "Revenue")
              /\ KeySum(df, key, "Profit") = SumOverDays(sel_start, sel_end, key, "Profit")
        /\ SumField(df, "Spend") = SumField(InWindow, "Spend")
        /\ SumField(df, "Revenue") = SumField(InWindow, "Revenue")
        /\ SumField(df, "Profit") = SumField(InWindow, "Revenue") - SumField(InWindow, "Spend")

\* the view of [9, 11] holds one row that sums the records of one ad on two
\* different days
C6_Witness ==
    /\ RangeView
    /\ sel_start = 9
    /\ sel_end = 11
    /\ Len(roas_df) = 2
    /\ roas_df[1].Date # roas_df[2].Date
    /\ Len(df) = 1
    /\ df[1].Spend = 200
    /\ df[1].Revenue = 240

----------------------------------------------------------------------------
(* The ratio of a view row *)

\* C7: in both modes every view row's ratio is finite: revenue / spend of the
\* row's own spend and revenue when spend is not 0, and 0 when spend is 0.
C7_RatioRecomputed ==
    pc = "calculated" =>
        \A i \in 1..Len(df) :
            /\ df[i].ROAS[1] = "fin"
            /\ df[i].ROAS[3] # 0
            /\ df[i].Spend >= 0 /\ df[i].Revenue >= 0
            /\ df[i].Spend # 0 => df[i].ROAS[2] * df[i].Spend = df[i].Revenue * df[i].ROAS[3]
            /\ df[i].Spend = 0 => df[i].ROAS[2] = 0

\* a range view with a row of revenue without spend, a row without either and
\* a row with both
C7_Witness ==
    /\ RangeView
    /\ \E i \in 1..Len(df) : df[i].Spend = 0 /\ df[i].Revenue > 0
    /\ \/ \E i \in 1..Len(df) : (df[i].Spend = 0 /\ df[i].Revenue = 0)
       \/ \E j \in 1..Len(df) : (df[j].Spend > 0 /\ df[j].ROAS[1] = "fin")

----------------------------------------------------------------------------
(* Rows the operator leaves alone *)

\* the operator has left row i alone: the proposed budget is at its default 0
\* and the status selector at the choice it opened with
Untouched(i) ==
    /\ widgets[i].new_budget = 0
    /\ widgets[i].new_status = widgets[i].default_status

\* C11 as claimed: a row the operator leaves untouched gets no budget field
\* and no status field, whatever its current budget and status are, and so
\* a pass in which every row is left untouched queues no request.
C11_UntouchedNoRequest ==
    /\ \A i \in Rendered : Untouched(i) => widgets[i].params = NoParams
    /\ (\A i \in Rendered : Untouched(i)) => batched_changes = <<>>

====
